---- MODULE Spec2Model ----
(***************************************************************************)
(* Model of imgphon's ultrasound image-filtering functions                 *)
(* (src/imgphon/ultrasound.py): normalize, norm_check, srad, clean_frame   *)
(* and roi_select, acting on numpy arrays.                                 *)
(*                                                                         *)
(* Arrays live in a heap (mem) and the program's names hold references,    *)
(* so that aliasing and in-place writes are visible.  Array elements of a  *)
(* floating dtype are binary floating-point numbers with round-to-nearest- *)
(* even arithmetic, infinities and NaN, exactly as IEEE-754 defines them,  *)
(* in a format scaled down to Prec significand bits: a finite value is the *)
(* integer count of its units of 2^-Prec.                                  *)
(***************************************************************************)
EXTENDS Integers, Sequences, FiniteSets, TLC

\* ------------------------------------------------------------------------
\* Bounds of the model
\* ------------------------------------------------------------------------
\* significand bits of the floating-point format
Prec == 4
\* exponent range: the largest binade has spacing 2^EMax units
EMax == 14
\* largest number of rows of a frame passed to roi_select
MaxRows == 3
\* largest number of rows of the other frames, and of columns of the frames
\* of two levels
MaxWide == 2
\* largest raw pixel intensity of an integer frame
MaxPix == 2
\* largest iteration count passed to srad
MaxIter == 2
\* largest side of a uniformly dark frame
MaxSide == 4

\* ------------------------------------------------------------------------
\* Floating-point numbers
\* ------------------------------------------------------------------------
TwoP == 2^Prec
\* the float 1.0
One == TwoP
\* largest finite float: np.finfo(dtype).max
FMax == (TwoP - 1) * 2^EMax
PInf == 2^30
NInf == -PInf
NaN == PInf + 1
\* np.spacing(1): distance from 1.0 to the next float
Eps == 2

IsNaN(x) == x = NaN
IsInf(x) == x = PInf \/ x = NInf
IsFinite(x) == ~IsNaN(x) /\ ~IsInf(x)
Abs(x) == IF x < 0 THEN -x ELSE x
Sgn(x) == IF x < 0 THEN -1 ELSE 1

RECURSIVE FindStep(_, _, _)
\* spacing of the binade that holds the rational a/den (a >= 0, den > 0),
\* or 0 when a/den lies beyond the largest binade
FindStep(a, den, step) ==
    IF a \div den < TwoP * step THEN step
    ELSE IF step >= 2^EMax THEN 0
    ELSE FindStep(a, den, 2 * step)

\* round-to-nearest-even of the rational num/den (den > 0) to a float
RN(num, den) ==
    LET a == Abs(num)
        step == FindStep(a, den, 1)
    IN  IF step = 0 THEN Sgn(num) * PInf
        ELSE LET d == den * step
                 k == a \div d
                 r == a - k * d
                 up == (2 * r > d) \/ (2 * r = d /\ k % 2 = 1)
                 v == (IF up THEN k + 1 ELSE k) * step
             IN  IF v > FMax THEN Sgn(num) * PInf ELSE Sgn(num) * v

FNeg(x) == IF IsNaN(x) THEN NaN ELSE -x

FAdd(a, b) ==
    IF IsNaN(a) \/ IsNaN(b) THEN NaN
    ELSE IF IsInf(a) THEN (IF IsInf(b) /\ a # b THEN NaN ELSE a)
    ELSE IF IsInf(b) THEN b
    ELSE RN(a + b, 1)

FSub(a, b) == FAdd(a, FNeg(b))

\* products of magnitudes beyond MaxProd overflow the format
MaxProd == 2^29

FMul(a, b) ==
    IF IsNaN(a) \/ IsNaN(b) THEN NaN
    ELSE IF IsInf(a) \/ IsInf(b)
         THEN (IF a = 0 \/ b = 0 THEN NaN ELSE Sgn(a) * Sgn(b) * PInf)
    ELSE IF a = 0 \/ b = 0 THEN 0
    ELSE IF Abs(a) > MaxProd \div Abs(b) THEN Sgn(a) * Sgn(b) * PInf
    ELSE RN(a * b, One)

FDiv(a, b) ==
    IF IsNaN(a) \/ IsNaN(b) THEN NaN
    ELSE IF IsInf(a) THEN (IF IsInf(b) THEN NaN ELSE Sgn(a) * Sgn(b) * PInf)
    ELSE IF IsInf(b) THEN 0
    ELSE IF b = 0 THEN (IF a = 0 THEN NaN ELSE Sgn(a) * PInf)
    ELSE RN(Sgn(b) * a * One, Abs(b))

\* comparisons: every comparison with NaN is false
FLt(a, b) == ~IsNaN(a) /\ ~IsNaN(b) /\ a < b
FLe(a, b) == ~IsNaN(a) /\ ~IsNaN(b) /\ a <= b
FGt(a, b) == FLt(b, a)
FGe(a, b) == FLe(b, a)

\* e^x and ln(y) are computed in fixed point with this many units per 1.0
LibScale == 2^14

RECURSIVE ExpSeries(_, _, _, _)
\* sum of the terms x^k/k! from the k-th on, term being the (k-1)-th
ExpSeries(x, term, k, acc) ==
    IF k > 12 \/ term = 0 THEN acc
    ELSE LET t == (term * x) \div (One * k)
         IN  ExpSeries(x, t, k + 1, acc + t)

\* np.exp on one float
FExp(x) ==
    IF IsNaN(x) THEN NaN
    ELSE IF x = PInf THEN PInf
    ELSE IF x = NInf THEN 0
    ELSE IF x >= 0 THEN RN(ExpSeries(x, LibScale, 1, LibScale) * One, LibScale)
    ELSE RN(LibScale * One, ExpSeries(-x, LibScale, 1, LibScale))

RECURSIVE AtanhSeries(_, _, _, _)
\* sum of z^(2k+1)/(2k+1): term is z^(2k+1), w is z^2
AtanhSeries(term, w, k, acc) ==
    IF k > 12 \/ term = 0 THEN acc
    ELSE AtanhSeries((term * w) \div LibScale, w, k + 1, acc + term \div (2 * k + 1))

\* np.log on one float; the working image of srad lies in [1, e]
FLog(y) ==
    IF IsNaN(y) \/ y < 0 THEN NaN
    ELSE IF y = 0 THEN NInf
    ELSE IF y = PInf THEN PInf
    ELSE LET a == Abs(y - One)
             z == (a * LibScale) \div (y + One)
             w == (z * z) \div LibScale
             l == 2 * AtanhSeries(z, w, 0, 0)
         IN  IF y >= One THEN RN(l * One, LibScale) ELSE -RN(l * One, LibScale)

\* ------------------------------------------------------------------------
\* Grids: a 2-D array's data, a sequence of rows
\* ------------------------------------------------------------------------
NRows(g) == Len(g)
NCols(g) == Len(g[1])
Pixels(g) == {<<i, j>> : i \in 1..NRows(g), j \in 1..NCols(g)}
GridSet(r, k, vals) == [1..r -> [1..k -> vals]]
Values(g) == {g[p[1]][p[2]] : p \in Pixels(g)}
Map1(F(_), g) == [i \in 1..NRows(g) |-> [j \in 1..NCols(g) |-> F(g[i][j])]]
Map2(F(_, _), g, h) ==
    [i \in 1..NRows(g) |-> [j \in 1..NCols(g) |-> F(g[i][j], h[i][j])]]
ConstGrid(g, v) == [i \in 1..NRows(g) |-> [j \in 1..NCols(g) |-> v]]

\* the largest / smallest element (np.amax, np.amin); NaN if any element is
Maximum(S) == IF NaN \in S THEN NaN ELSE CHOOSE x \in S : \A y \in S : y <= x
Minimum(S) == IF NaN \in S THEN NaN ELSE CHOOSE x \in S : \A y \in S : x <= y

\* ------------------------------------------------------------------------
\* dtypes
\* ------------------------------------------------------------------------
FloatTypes == {"float32", "float64"}
IntTypes == {"uint8", "int64"}
\* np.issubdtype(dtype, np.float)
IsFloatDtype(dtype) == dtype \in FloatTypes
\* the float an element of an array of this dtype converts to
ToFloat(dtype, v) == IF IsFloatDtype(dtype) THEN v ELSE RN(v * One, 1)
\* dtype of (array - python float)
ResultType(dtype) == IF IsFloatDtype(dtype) THEN dtype ELSE "float64"

\* ------------------------------------------------------------------------
\* State
\* ------------------------------------------------------------------------
VARIABLES
    mem,      \* the heap: array reference -> [dtype, data], or NoArr if free
    pc,       \* "ready", inside "srad" or "clean_frame", "returned", "raised"
    op,       \* the function called
    exc,      \* the exception raised: "none", "TypeError", "ValueError"
    ret,      \* reference of the returned array, 0 if none
    args,     \* the call's scalar arguments
    I,        \* srad: reference of the working image
    n,        \* srad: iterations done
    idx,      \* srad: the neighbour-index maps iN, iS, jW, jE
    diff,     \* srad: the differences dN, dS, dW, dE of the last iteration
    c,        \* srad: reference of the diffusion coefficient
    cleaned,  \* clean_frame: reference of the median-filtered array
    logmask   \* clean_frame: reference of the LoG mask

vars == <<mem, pc, op, exc, ret, args, I, n, idx, diff, c, cleaned, logmask>>

sradVars == <<I, n, idx, diff, c>>
cleanVars == <<cleaned, logmask>>

\* number of heap slots
NSlots == 4
Refs == 1..NSlots
NoArr == [dtype |-> "none", data |-> <<>>]
\* the array the caller passes in
frame == 1
Array(dtype, data) == [dtype |-> dtype, data |-> data]
\* a fresh array (np.zeros, or the result of an arithmetic expression)
Alloc(m) == CHOOSE r \in Refs : m[r] = NoArr /\ \A q \in Refs : m[q] = NoArr => r <= q
New(m, arr) == [m EXCEPT ![Alloc(m)] = arr]
\* a name is rebound or goes out of scope: its array is collected unless it
\* is the caller's
Free(m, r) == IF r = frame \/ r = 0 THEN m ELSE [m EXCEPT ![r] = NoArr]

NoArgs == [lower |-> 0, upper |-> 0, n_iter |-> 0, lbda |-> 0]
NoIdx == [iN |-> <<>>, iS |-> <<>>, jW |-> <<>>, jE |-> <<>>]
NoDiff == [dN |-> <<>>, dS |-> <<>>, dW |-> <<>>, dE |-> <<>>]

\* the state in which the caller holds one frame and has called nothing
Start(arr) ==
    /\ mem = [r \in Refs |-> IF r = frame THEN arr ELSE NoArr]
    /\ pc = "ready"
    /\ op = "none"
    /\ exc = "none"
    /\ ret = 0
    /\ args = NoArgs
    /\ I = 0
    /\ n = 0
    /\ idx = NoIdx
    /\ diff = NoDiff
    /\ c = 0
    /\ cleaned = 0
    /\ logmask = 0

\* frames of every shape of a family, dtype and choice of samples
Frames(shapes, dtypes, vals) ==
    UNION {{Array(t, g) : t \in dtypes, g \in GridSet(sh[1], sh[2], vals)} : sh \in shapes}

\* ------------------------------------------------------------------------
\* normalize (ultrasound.py:5-13)
\* ------------------------------------------------------------------------
\* normalize that divides by the range without subtracting the minimum
NormalizeNoShift(arr) ==
    LET f(v) == ToFloat(arr.dtype, v)
        mx == Maximum({f(v) : v \in Values(arr.data)})
        mn == Minimum({f(v) : v \in Values(arr.data)})
        scale(v) == FDiv(f(v), FSub(mx, mn))
    IN  Map1(scale, arr.data)

\* frame - mn, then / (mx - mn), elementwise
NormalizeData(arr) ==
    LET f(v) == ToFloat(arr.dtype, v)
        mx == Maximum({f(v) : v \in Values(arr.data)})
        mn == Minimum({f(v) : v \in Values(arr.data)})
        scale(v) == FDiv(FSub(f(v), mn), FSub(mx, mn))
    IN  Map1(scale, arr.data)

NormalizeArr(arr) == Array(ResultType(arr.dtype), NormalizeData(arr))

Normalize ==
    /\ pc = "ready"
    /\ mem' = New(mem, NormalizeArr(mem[frame]))
    /\ ret' = Alloc(mem)
    /\ pc' = "returned"
    /\ op' = "normalize"
    /\ UNCHANGED <<exc, args, sradVars, cleanVars>>

\* ------------------------------------------------------------------------
\* norm_check (ultrasound.py:15-23)
\* ------------------------------------------------------------------------
\* (frame >= 0.).all() and (frame <= 1.).all()
AllGeZero(g) == \A v \in Values(g) : FGe(v, 0)
AllLeOne(g) == \A v \in Values(g) : FLe(v, One)

\* the guard of line 22: `not` binds tighter than `and`
RangeGuard(g) == (~AllGeZero(g)) /\ AllLeOne(g)

\* norm_check with the range checked before the type
NormCheckRangeFirst(arr) ==
    IF RangeGuard(arr.data) THEN "ValueError"
    ELSE IF ~IsFloatDtype(arr.dtype) THEN "TypeError"
    ELSE "none"

\* the exception norm_check raises on this array, "none" if it returns
NormCheckExc(arr) ==
    IF ~IsFloatDtype(arr.dtype) THEN "TypeError"
    ELSE IF RangeGuard(arr.data) THEN "ValueError"
    ELSE "none"

NormCheck ==
    /\ pc = "ready"
    /\ exc' = NormCheckExc(mem[frame])
    /\ pc' = IF exc' = "none" THEN "returned" ELSE "raised"
    /\ op' = "norm_check"
    /\ UNCHANGED <<mem, ret, args, sradVars, cleanVars>>

\* ------------------------------------------------------------------------
\* roi_select (ultrasound.py:137-162)
\* ------------------------------------------------------------------------
\* the row a slice bound denotes in an axis of length len (0-based)
SliceBound(i, len) ==
    LET k == IF i < 0 THEN i + len ELSE i
    IN  IF k < 0 THEN 0 ELSE IF k > len THEN len ELSE k

\* a slice that takes the row at its upper bound too
SliceRowsInclusive(lower, upper, len) ==
    {r \in 1..len : SliceBound(lower, len) < r /\ r <= SliceBound(upper, len) + 1}

\* 1-based rows selected by [lower:upper]
SliceRows(lower, upper, len) ==
    {r \in 1..len : SliceBound(lower, len) < r /\ r <= SliceBound(upper, len)}

\* np.zeros(frame.shape, dtype=frame.dtype)
Zeros(arr) == Array(arr.dtype, ConstGrid(arr.data, 0))

\* region[lower:upper,:] = frame[lower:upper,:]
AssignRows(region, src, lower, upper) ==
    [region EXCEPT !.data =
        [r \in 1..NRows(region.data) |->
            IF r \in SliceRows(lower, upper, NRows(region.data))
            THEN src.data[r] ELSE region.data[r]]]

\* a guard that lets equal bounds through
BadBoundsStrict(lower, upper) == lower > upper

\* the guard of line 156
BadBounds(lower, upper) == lower >= upper

RoiSelect(lower, upper) ==
    /\ pc = "ready"
    /\ op' = "roi_select"
    /\ args' = [args EXCEPT !.lower = lower, !.upper = upper]
    /\ IF BadBounds(lower, upper)
       THEN /\ exc' = "ValueError"
            /\ pc' = "raised"
            /\ UNCHANGED <<mem, ret>>
       ELSE LET region == Alloc(mem)
                m1 == New(mem, Zeros(mem[frame]))
            IN  /\ mem' = [m1 EXCEPT ![region] =
                              AssignRows(m1[region], m1[frame], lower, upper)]
                /\ ret' = region
                /\ pc' = "returned"
                /\ UNCHANGED exc
    /\ UNCHANGED <<sradVars, cleanVars>>

\* ------------------------------------------------------------------------
\* srad (ultrasound.py:26-105)
\* ------------------------------------------------------------------------
\* np.arange(a, b)
Arange(a, b) == [k \in 1..(IF b > a THEN b - a ELSE 0) |-> a + k - 1]

\* neighbour-index maps that wrap to the opposite edge
IndexMapsPeriodic(M, N) ==
    [iN |-> Arange(M - 1, M) \o Arange(0, M - 1),
     iS |-> Arange(1, M) \o Arange(0, 1),
     jW |-> Arange(N - 1, N) \o Arange(0, N - 1),
     jE |-> Arange(1, N) \o Arange(0, 1)]

\* the four neighbour-index maps of an M x N image (0-based, as in numpy)
IndexMaps(M, N) ==
    [iN |-> Arange(0, 1) \o Arange(0, M - 1),
     iS |-> Arange(1, M) \o Arange(M - 1, M),
     jW |-> Arange(0, 1) \o Arange(0, N - 1),
     jE |-> Arange(1, N) \o Arange(N - 1, N)]

\* g[rows,:] and g[:,cols] for 0-based index maps
TakeRows(g, rows) == [i \in 1..Len(rows) |-> g[rows[i] + 1]]
TakeCols(g, cols) == [i \in 1..NRows(g) |-> [j \in 1..Len(cols) |-> g[i][cols[j] + 1]]]

\* the elements in C order
Flat(g) == [k \in 1..(NRows(g) * NCols(g)) |->
               g[((k - 1) \div NCols(g)) + 1][((k - 1) % NCols(g)) + 1]]

RECURSIVE SumSeq(_, _)
\* the sum of the first k elements, added in order
SumSeq(s, k) == IF k = 0 THEN 0 ELSE FAdd(SumSeq(s, k - 1), s[k])

FSq(x) == FMul(x, x)
Count(g) == RN(NRows(g) * NCols(g) * One, 1)
\* np.mean and np.var over the whole image
Mean(g) == FDiv(SumSeq(Flat(g), NRows(g) * NCols(g)), Count(g))
Var(g) ==
    LET mu == Mean(g)
        dev(v) == FSq(FSub(v, mu))
        d == Map1(dev, g)
    IN  FDiv(SumSeq(Flat(d), NRows(g) * NCols(g)), Count(g))

\* c[np.where(c<0)] = 0, then c[np.where(c>0)] = 1
Saturate(cg) ==
    LET neg(v) == IF FLt(v, 0) THEN 0 ELSE v
        pos(v) == IF FGt(v, 0) THEN One ELSE v
    IN  Map1(pos, Map1(neg, cg))

\* the differences of lines 70-73
Differences(Ig, ix) ==
    [dN |-> Map2(FSub, TakeRows(Ig, ix.iN), Ig),
     dS |-> Map2(FSub, TakeRows(Ig, ix.iS), Ig),
     dW |-> Map2(FSub, TakeCols(Ig, ix.jW), Ig),
     dE |-> Map2(FSub, TakeCols(Ig, ix.jE), Ig)]

\* the speckle scale function (line 67)
Q0Squared(Ig) == FDiv(Var(Ig), FSq(Mean(Ig)))

\* the diffusion coefficient before saturation (lines 76-88); the literal
\* 1/16 is the true quotient, as Python 3 evaluates it
Coefficient(Ig, d, q0_squared) ==
    LET sq(g) == Map1(FSq, g)
        add(g, h) == Map2(FAdd, g, h)
        G2 == Map2(FDiv, add(add(add(sq(d.dN), sq(d.dS)), sq(d.dW)), sq(d.dE)), sq(Ig))
        L == Map2(FDiv, add(add(add(d.dN, d.dS), d.dW), d.dE), Ig)
        numf(g2, l) == FSub(FMul(One \div 2, g2), FMul(FDiv(One, 16 * One), FSq(l)))
        num == Map2(numf, G2, L)
        denf(l) == FSq(FAdd(One, FMul(One \div 4, l)))
        den == Map1(denf, L)
        qf(a, b) == FDiv(a, FAdd(b, Eps))
        q_squared == Map2(qf, num, den)
        den2f(q) == FDiv(FSub(q, q0_squared),
                         FAdd(FMul(q0_squared, FAdd(q0_squared, One)), Eps))
        cf(q) == FDiv(One, FAdd(den2f(q), One))
    IN  Map1(cf, q_squared)

\* the divergence (lines 95-97)
Divergence(cg, d, ix) ==
    LET cS == TakeRows(cg, ix.iS)
        cE == TakeCols(cg, ix.jE)
        mul(g, h) == Map2(FMul, g, h)
        add(g, h) == Map2(FAdd, g, h)
    IN  add(add(add(mul(cg, d.dN), mul(cS, d.dS)), mul(cg, d.dW)), mul(cE, d.dE))

\* the update (line 100): I + (lbda/4) * D
Update(Ig, D, lbda) ==
    LET k == FDiv(lbda, 4 * One)
        upd(v, dv) == FAdd(v, FMul(k, dv))
    IN  Map2(upd, Ig, D)

\* lines 46-59
SradBegin(n_iter, lbda) ==
    /\ pc = "ready"
    /\ op' = "srad"
    /\ pc' = "srad"
    /\ args' = [args EXCEPT !.n_iter = n_iter, !.lbda = lbda]
    /\ \E m1 \in {New(mem, NormalizeArr(mem[frame]))} :
       \E m2 \in {New(m1, Array(m1[Alloc(mem)].dtype, Map1(FExp, m1[Alloc(mem)].data)))} :
           /\ mem' = Free(m2, Alloc(mem))
           /\ I' = Alloc(m1)
           /\ idx' = IndexMaps(NRows(mem[frame].data), NCols(mem[frame].data))
    /\ n' = 0
    /\ UNCHANGED <<exc, ret, diff, c, cleanVars>>

\* one pass of the loop body (lines 62-100)
SradIter ==
    /\ pc = "srad"
    /\ n < args.n_iter
    /\ \E q0_squared \in {Q0Squared(mem[I].data)} :
       \E d \in {Differences(mem[I].data, idx)} :
       \E m1 \in {New(mem, Array(mem[I].dtype,
                                 Coefficient(mem[I].data, d, q0_squared)))} :
       \E m3 \in {[Free(m1, c) EXCEPT ![Alloc(mem)].data = Saturate(m1[Alloc(mem)].data)]} :
       \E D \in {Divergence(m3[Alloc(mem)].data, d, idx)} :
       \E m4 \in {New(m3, Array(mem[I].dtype, Update(m3[I].data, D, args.lbda)))} :
           /\ mem' = Free(m4, I)
           /\ I' = Alloc(m3)
           /\ c' = Alloc(mem)
           /\ diff' = d
    /\ n' = n + 1
    /\ UNCHANGED <<pc, op, exc, ret, args, idx, cleanVars>>

\* lines 102-105
SradEnd ==
    /\ pc = "srad"
    /\ n = args.n_iter
    /\ LET J == Alloc(mem)
           m1 == New(mem, Array(mem[I].dtype, Map1(FLog, mem[I].data)))
       IN  /\ mem' = Free(Free(m1, I), c)
           /\ ret' = J
    /\ pc' = "returned"
    /\ I' = 0
    /\ c' = 0
    /\ UNCHANGED <<op, exc, args, n, idx, diff, cleanVars>>

\* ------------------------------------------------------------------------
\* clean_frame (ultrasound.py:107-135)
\* ------------------------------------------------------------------------
\* default of the parameter median_radius
MedianRadius == 6

\* index of an out-of-range position under scipy's mode='reflect'
Reflect(i, len) ==
    LET p == ((i - 1) % (2 * len))
    IN  IF p < len THEN p + 1 ELSE 2 * len - p

\* scipy.ndimage.median_filter(frame, size): the element of rank size^2 // 2
\* in the size x size window that starts size // 2 before the pixel
MedianFilter(g, size) ==
    LET off == {k - size \div 2 : k \in 0..(size - 1)}
        win == off \X off
        at(i, j, w) == g[Reflect(i + w[1], NRows(g))][Reflect(j + w[2], NCols(g))]
        rank == (size * size) \div 2
        med(i, j) ==
            CHOOSE v \in Values(g) :
                /\ Cardinality({w \in win : at(i, j, w) < v}) <= rank
                /\ rank < Cardinality({w \in win : at(i, j, w) <= v})
    IN  [i \in 1..NRows(g) |-> [j \in 1..NCols(g) |-> med(i, j)]]

\* np.putmask(a, mask < a, mask)
PutMask(a, mask) ==
    LET put(v, mv) == IF FLt(mv, v) THEN mv ELSE v
    IN  Map2(put, a, mask)

\* a median filter that writes its result over its input
MedianInPlace(m) == frame

\* where median_filter puts its result: no output array is passed, so a new
\* array is made
MedianOut(m) == Alloc(m)

\* lines 123-129; g is the array scipy's gaussian_laplace returns
CleanFilter(g) ==
    /\ pc = "ready"
    /\ op' = "clean_frame"
    /\ exc' = NormCheckExc(mem[frame])
    /\ IF exc' # "none"
       THEN /\ pc' = "raised"
            /\ UNCHANGED <<mem, cleanVars>>
       ELSE \E m1 \in {[mem EXCEPT ![MedianOut(mem)] =
                           Array(mem[frame].dtype,
                                 MedianFilter(mem[frame].data, MedianRadius))]} :
                /\ NRows(g) = NRows(mem[frame].data)
                /\ NCols(g) = NCols(mem[frame].data)
                /\ cleaned' = MedianOut(mem)
                /\ logmask' = Alloc(m1)
                /\ mem' = New(m1, Array(mem[frame].dtype, g))
                /\ pc' = "clean_frame"
    /\ UNCHANGED <<ret, args, sradVars>>

\* frame_ceil - logmask, elementwise
Invert(frame_ceil, g) == LET inv(v) == FSub(frame_ceil, v) IN Map1(inv, g)

\* lines 130-135
CleanAdd ==
    /\ pc = "clean_frame"
    /\ \E frame_ceil \in {FMax} :
       \E m1 \in {Free(New(mem, Array(mem[logmask].dtype,
                                      Invert(frame_ceil, mem[logmask].data))), logmask)} :
       \E m2 \in {[m1 EXCEPT ![cleaned].data =
                      PutMask(m1[cleaned].data, m1[Alloc(mem)].data)]} :
       \E m3 \in {[m2 EXCEPT ![cleaned].data =
                      Map2(FAdd, m2[cleaned].data, Invert(frame_ceil, m2[Alloc(mem)].data))]} :
           /\ mem' = Free(m3, Alloc(mem))
           /\ ret' = cleaned
    /\ pc' = "returned"
    /\ logmask' = 0
    /\ UNCHANGED <<op, exc, args, cleaned, sradVars>>

\* ------------------------------------------------------------------------
\* Specifications: the caller holds one frame and calls one function
\* ------------------------------------------------------------------------
\* shapes of frames: up to MaxWide rows of one or two samples; for frames of
\* two levels, up to MaxWide x MaxWide; for roi_select, up to MaxRows rows
Shapes == (1..MaxWide) \X {1, 2}
WideShapes == (1..MaxWide) \X (1..MaxWide)
RoiShapes == (1..MaxRows) \X {1, 2}
\* frames passed to roi_select
RoiFrames == Frames(RoiShapes, {"uint8"}, {0, 1, 2})
\* frames of two levels that are not uniform
TexturedFrames == {arr \in Frames(WideShapes, {"uint8"}, {0, MaxPix}) : Cardinality(Values(arr.data)) > 1}
\* raw integer frames, as read from an acquisition
RawFrames == Frames(Shapes, {"uint8"}, 0..MaxPix)
\* raw frames of dark and bright pixels only
TwoLevelFrames == Frames(WideShapes, {"uint8"}, {0, MaxPix})
\* uniformly dark frames of up to MaxSide x MaxSide
FlatFrames ==
    {Array("uint8", [i \in 1..r |-> [j \in 1..k |-> 0]]) : r \in 1..MaxSide, k \in 1..MaxSide}
\* float frames with samples below, inside and above [0,1]
FloatVals == {-(One \div 2), 0, One, 2 * One}
FloatFrames == Frames(Shapes, FloatTypes, FloatVals)
IntFrames == Frames(Shapes, {"int64"}, {-1, 0, 2})
\* float frames with samples that do not divide evenly
OddFrames == Frames(Shapes, {"float64"}, {-(One \div 2), 0, 5, One})
\* float frames with samples up to the largest float
CeilFrames == Frames(Shapes, {"float64"}, {0, One \div 2, FMax})
\* small frames of either kind
SmallFrames == Frames(Shapes, {"uint8"}, {0, MaxPix}) \cup Frames(Shapes, {"float64"}, {0, One})

\* arguments of srad: lbda is 0, the default 0.05 or 0.25
Lambdas == {0, FDiv(One, 20 * One), One \div 4}
\* arguments of roi_select
RowBounds == (-1)..(MaxRows + 1)
\* values of the LoG response: none, weak of either sign, strong
Strong == 2^(EMax + Prec - 1)
LogVals == {-(One \div 4), 0, One \div 4, Strong}
LogGrids == UNION {GridSet(sh[1], sh[2], LogVals) : sh \in Shapes}
\* LoG responses that vanish except at one pixel
PointGrids ==
    UNION {{[i \in 1..sh[1] |-> [j \in 1..sh[2] |-> IF <<i, j>> = p THEN v ELSE 0]] :
              p \in (1..sh[1]) \X (1..sh[2]), v \in LogVals} : sh \in Shapes}

InitNorm == \E arr \in RawFrames \cup OddFrames : Start(arr)
NextNorm == Normalize
SpecNorm == InitNorm /\ [][NextNorm]_vars

InitCheck == \E arr \in FloatFrames \cup IntFrames : Start(arr)
NextCheck == NormCheck
SpecCheck == InitCheck /\ [][NextCheck]_vars

InitRoi == \E arr \in RoiFrames : Start(arr)
NextRoi == \E lower \in RowBounds, upper \in RowBounds : RoiSelect(lower, upper)
SpecRoi == InitRoi /\ [][NextRoi]_vars

InitSrad == \E arr \in TwoLevelFrames \cup FlatFrames : Start(arr)
NextSrad ==
    \/ \E n_iter \in 0..MaxIter, lbda \in Lambdas : SradBegin(n_iter, lbda)
    \/ SradIter
    \/ SradEnd
SpecSrad == InitSrad /\ [][NextSrad]_vars

\* srad on the frames normalize is defined for
InitDiffuse == \E arr \in TexturedFrames : Start(arr)
SpecDiffuse == InitDiffuse /\ [][NextSrad]_vars

InitClean == \E arr \in CeilFrames : Start(arr)
NextClean ==
    \/ \E g \in LogGrids : CleanFilter(g)
    \/ CleanAdd
SpecClean == InitClean /\ [][NextClean]_vars

\* the caller may call any of the functions on its frame
Init == \E arr \in SmallFrames : Start(arr)
Next ==
    \/ Normalize
    \/ NormCheck
    \/ \E lower \in RowBounds, upper \in RowBounds : RoiSelect(lower, upper)
    \/ \E n_iter \in 0..MaxIter, lbda \in Lambdas : SradBegin(n_iter, lbda)
    \/ SradIter
    \/ SradEnd
    \/ \E g \in PointGrids : CleanFilter(g)
    \/ CleanAdd
Spec == Init /\ [][Next]_vars

\* ------------------------------------------------------------------------
\* Properties
\* ------------------------------------------------------------------------
Returned(f) == pc = "returned" /\ op = f
Raised(f) == pc = "raised" /\ op = f
\* the caller's frame and the array returned
In == mem[frame].data
Out == mem[ret].data
ZeroRow(row) == \A j \in 1..Len(row) : row[j] = 0
\* row r (0-based) lies in [lower, upper)
InBand(r) == args.lower <= r /\ r < args.upper

\* C1: for 0 <= lower < upper <= R, roi_select returns an array of the
\* frame's shape whose rows inside [lower, upper) equal the frame's rows and
\* whose other rows are all zeros.
C1_RoiKeepsBandZeroesRest ==
    (Returned("roi_select") /\ 0 <= args.lower /\ args.lower < args.upper
        /\ args.upper <= NRows(In))
    => /\ NRows(Out) = NRows(In)
       /\ NCols(Out) = NCols(In)
       /\ mem[ret].dtype = mem[frame].dtype
       /\ \A r \in 1..NRows(In) :
            /\ Len(Out[r]) = Len(In[r])
            /\ IF InBand(r - 1) THEN Out[r] = In[r] ELSE ZeroRow(Out[r])

\* a band strictly inside the frame: rows of non-zero samples above and
\* below it were zeroed, and a non-zero row inside it was kept
C1_Witness ==
    /\ Returned("roi_select")
    /\ args.lower = 1
    /\ args.upper = 2
    /\ NRows(In) = 3
    /\ \A r \in 1..3 : ~ZeroRow(In[r])
    /\ ZeroRow(Out[1]) /\ Out[2] = In[2] /\ ZeroRow(Out[3])

\* C2: roi_select raises ValueError exactly when lower >= upper, and then no
\* region has been allocated or returned.
C2_RoiRaisesIffBadBounds ==
    (op = "roi_select")
    => /\ (exc = "ValueError") <=> (args.lower >= args.upper)
       /\ (args.lower >= args.upper)
            => /\ pc = "raised"
               /\ ret = 0
               /\ \A r \in Refs \ {frame} : mem[r] = NoArr
       /\ (args.lower < args.upper) => (pc = "returned" /\ exc = "none")

\* equal bounds were refused
C2_Witness ==
    /\ Raised("roi_select")
    /\ exc = "ValueError"
    /\ args.lower = args.upper
    /\ args.lower = 1

OutOfRange(g) == \E v \in Values(g) : ~(FGe(v, 0) /\ FLe(v, One))

\* C3: norm_check raises ValueError for every float frame with a sample
\* outside [0,1].
C3_ChecksRange ==
    (op = "norm_check" /\ IsFloatDtype(mem[frame].dtype) /\ OutOfRange(In))
    => exc = "ValueError"

\* C4: norm_check returns without raising for every float frame whose
\* samples all lie in [0,1], and raises TypeError for every frame that is not
\* float, whatever its samples.
C4_TypeCheckedFirst ==
    (op = "norm_check")
    => /\ (~IsFloatDtype(mem[frame].dtype)) => (exc = "TypeError" /\ pc = "raised")
       /\ (IsFloatDtype(mem[frame].dtype) /\ ~OutOfRange(In))
            => (exc = "none" /\ pc = "returned")

\* an integer frame on which the range guard of line 22 is true got the
\* TypeError
C4_Witness ==
    /\ Raised("norm_check")
    /\ exc = "TypeError"
    /\ ~IsFloatDtype(mem[frame].dtype)
    /\ RangeGuard(In)

\* C5: in clean_frame the clamp-then-add sequence gives, at every pixel with
\* median-filtered value m and LoG value g, a result that never exceeds the
\* largest float and that is m + g when m + g does not exceed it, and the
\* largest float otherwise.
C5_ClampThenAddIsSaturatingSum ==
    [][(pc = "clean_frame" /\ pc' = "returned")
       => \A p \in Pixels(mem[cleaned].data) :
             LET m == mem[cleaned].data[p[1]][p[2]]
                 g == mem[logmask].data[p[1]][p[2]]
                 r == mem'[ret'].data[p[1]][p[2]]
             IN  /\ FLe(r, FMax)
                 /\ r = (IF m + g <= FMax THEN FAdd(m, g) ELSE FMax)]_vars

\* the samples of the frame as floats, their extremes
AsFloat(v) == ToFloat(mem[frame].dtype, v)
InMax == Maximum({AsFloat(v) : v \in Values(In)})
InMin == Minimum({AsFloat(v) : v \in Values(In)})

\* C6: on a frame with max > min, normalize maps each sample x to the float
\* nearest (x - min)/(max - min): every output lies in [0,1], the minimum
\* maps to exactly 0, the maximum to exactly 1, and order is preserved.
C6_NormalizeOntoUnitRange ==
    (Returned("normalize") /\ InMax > InMin)
    => \A p \in Pixels(In) :
          LET x == AsFloat(In[p[1]][p[2]])
              y == Out[p[1]][p[2]]
          IN  /\ 0 <= y /\ y <= One
              /\ 2 * Abs(y * (InMax - InMin) - (x - InMin) * One) <= InMax - InMin
              /\ (x = InMin) => (y = 0)
              /\ (x = InMax) => (y = One)
              /\ \A q \in Pixels(In) :
                    (x <= AsFloat(In[q[1]][q[2]])) => (y <= Out[q[1]][q[2]])

\* a frame with a non-zero minimum and a sample whose quotient is rounded
C6_Witness ==
    /\ Returned("normalize")
    /\ InMin # 0
    /\ InMax > InMin
    /\ \E p \in Pixels(In) :
          LET x == AsFloat(In[p[1]][p[2]])
          IN  /\ InMin < x /\ x < InMax
              /\ ((x - InMin) * One) % (InMax - InMin) # 0

Uniform(g) == Cardinality(Values(g)) = 1
AllZero(g) == \A v \in Values(g) : v = 0
\* numerical equality: NaN equals nothing
FEq(a, b) == ~IsNaN(a) /\ ~IsNaN(b) /\ a = b

\* C7: srad on a uniformly constant frame leaves the working image
\* numerically unchanged in every iteration: the four differences are zero
\* at every pixel and the image after the iteration equals the image before.
C7_UniformFrameIsFixedPoint ==
    [][(pc = "srad" /\ pc' = "srad" /\ n' = n + 1 /\ Uniform(In))
       => /\ AllZero(diff'.dN) /\ AllZero(diff'.dS)
          /\ AllZero(diff'.dW) /\ AllZero(diff'.dE)
          /\ \A p \in Pixels(In) :
                FEq(mem'[I'].data[p[1]][p[2]], mem[I].data[p[1]][p[2]])]_vars

\* C8: no stage changes the array the caller passed in.
C8_CallerFrameUntouched == [][mem'[frame] = mem[frame]]_vars

\* clean_frame has returned an array that differs from the median-filtered
\* frame: its in-place writes (putmask, +=) acted on the array it returns
C8_Witness ==
    /\ Returned("clean_frame")
    /\ Out # MedianFilter(In, MedianRadius)

\* C9: the neighbour-index maps of srad have lengths M, M, N, N, hold valid
\* indices only, and replicate at the edges: iN[0] = 0, iN[i] = i-1,
\* iS[M-1] = M-1, iS[i] = i+1, jW[0] = 0, jW[j] = j-1, jE[N-1] = N-1,
\* jE[j] = j+1.
C9_NeumannIndexMaps ==
    (op = "srad")
    => LET M == NRows(In)
           N == NCols(In)
       IN  /\ Len(idx.iN) = M /\ Len(idx.iS) = M
           /\ Len(idx.jW) = N /\ Len(idx.jE) = N
           /\ \A i \in 0..(M - 1) :
                 /\ idx.iN[i + 1] \in 0..(M - 1) /\ idx.iS[i + 1] \in 0..(M - 1)
                 /\ idx.iN[i + 1] = (IF i = 0 THEN 0 ELSE i - 1)
                 /\ idx.iS[i + 1] = (IF i = M - 1 THEN M - 1 ELSE i + 1)
           /\ \A j \in 0..(N - 1) :
                 /\ idx.jW[j + 1] \in 0..(N - 1) /\ idx.jE[j + 1] \in 0..(N - 1)
                 /\ idx.jW[j + 1] = (IF j = 0 THEN 0 ELSE j - 1)
                 /\ idx.jE[j + 1] = (IF j = N - 1 THEN N - 1 ELSE j + 1)

\* maps of a frame with interior rows and columns
C9_Witness ==
    /\ op = "srad"
    /\ NRows(In) >= 3
    /\ NCols(In) >= 3
    /\ idx.iN[1] = 0 /\ idx.iS[NRows(In)] = NRows(In) - 1

\* C10: for 0 <= lambda <= 0.25 the diffusion coefficient is 0 or 1 at every
\* pixel and every iteration leaves every pixel between the minimum and the
\* maximum of the working image before it; the working image stays within
\* the range [1, e] of the initial one, and the output lies in [0,1].
C10_MaximumPrinciple ==
    /\ [][(pc = "srad" /\ pc' = "srad" /\ n' = n + 1)
          => /\ Values(mem'[c'].data) \subseteq {0, One}
             /\ \A v \in Values(mem'[I'].data) :
                   /\ FLe(Minimum(Values(mem[I].data)), v)
                   /\ FLe(v, Maximum(Values(mem[I].data)))]_vars
    /\ [](pc = "srad" => \A v \in Values(mem[I].data) : FLe(FExp(0), v) /\ FLe(v, FExp(One)))
    /\ [](Returned("srad") => \A v \in Values(Out) : FLe(0, v) /\ FLe(v, One))

\* two iterations at lambda = 0.25 have moved a pixel strictly inside the
\* range of the initial working image
C10_Witness ==
    /\ pc = "srad"
    /\ n >= 2
    /\ args.lbda = One \div 4
    /\ One \in Values(mem[c].data)
    /\ \E v \in Values(mem[I].data) : FExp(0) < v /\ v < FExp(One)

====
